---- MODULE Spec2Model ----
(***************************************************************************)
(* A model of the MVRV acquisition + render pipeline of mvrv-x-bot.        *)
(*                                                                         *)
(*   SpecFetch  CoinmetricsService: getMVRVHistory (paginated fetch, sort, *)
(*              parse) and getBitcoinMVRV (short window, history fallback) *)
(*              running against a nondeterministic upstream.               *)
(*   SpecChain  ChartService.generateMVRVChart of the three chained        *)
(*              variants (Resvg -> screenshot; QuickChart -> Resvg ->      *)
(*              screenshot), one backend attempt at a time.                *)
(*   SpecRender ChartService.generateMVRVChart of the four single-backend  *)
(*              variants: canvas, Resvg only, headless browser, Chart.js.  *)
(*   SpecLayout the arithmetic the renderers share: line points, x labels, *)
(*              zone rectangles, and the down-sampling of part_004, over   *)
(*              exact rationals.                                           *)
(*                                                                         *)
(* JavaScript strings that the code inspects character by character are    *)
(* tuples of one-character strings; <<>> is the empty string.  A JSON      *)
(* object is a record, and an absent field is a field the record lacks.    *)
(***************************************************************************)
EXTENDS Integers, Sequences, FiniteSets, TLC

VARIABLES
  \* ---- CoinmetricsService.getMVRVHistory
  hpc,        \* "idle" | "loop" | "await" | "returned" | "failed"
  url,        \* the local `url`: the next page to request, "" when none
  allData,    \* the local `allData`: raw points accumulated so far
  hresult,    \* the returned { times, values }
  herr,       \* the error the call rejected with
  requests,   \* every URL passed to fetch() by this call, in order
  inflight,   \* page requests issued and not yet answered
  responses,  \* how each page request ended: "ok" | "notok" | "reject"
  upstream,   \* the successful response the upstream gave for each URL
  \* ---- CoinmetricsService.getBitcoinMVRV
  rpc,        \* "idle" | "await_window" | "in_history" | "returned" | "failed"
  window,     \* the body of the short-window response, once received
  rresult,    \* the returned number
  rerr,       \* the error the call rejected with
  histCalls,  \* how many times getBitcoinMVRV invoked getMVRVHistory
  \* ---- ChartService.generateMVRVChart (chained variants)
  variant,    \* which source file's chain runs: "part_003" | "part_004" | "part_005"
  data,       \* the ChartData argument
  env,        \* process.env as the screenshot fallback reads it
  cpc,        \* position in generateMVRVChart
  attempts,   \* backends whose block was entered, in order
  active,     \* backends with a remote request in flight
  failures,   \* backends whose attempt raised, with the error each raised
  produced,   \* backends whose attempt produced an image, with its bytes
  sent,       \* remote requests issued by the call, in order
  cresult,    \* the returned Buffer
  cerr,       \* the error the call rejected with
  \* ---- ChartService.generateMVRVChart, single-backend variants
  renderer,   \* which variant runs: "canvas" | "resvg_only" | "puppeteer" | "chartjs"
  rdata,      \* the { times, values } argument
  fonts,      \* the font files found under assets/fonts
  ppc,        \* position in the function body
  browser,    \* the local `browser`: "undefined" or "handle"
  procOpen,   \* whether a browser process launched by the call is running
  raised,     \* the errors raised inside the call, in order
  divisions,  \* the quotients getX evaluated, as [num, den]
  shot,       \* the local `buffer` holding the page screenshot
  registered, \* font families made available to the rasterizer
  fontUsed,   \* the family the text is drawn with
  presult,    \* the returned Buffer
  perr,       \* the error the call rejected with
  \* ---- the layout arithmetic of generateMVRVChart
  lop,        \* which computation ran: "none" | "points" | "zones" | "sample"
  lin,        \* its inputs
  lout        \* what it computed

fetchVars == <<hpc, url, allData, hresult, herr, requests, inflight, responses, upstream,
               rpc, window, rresult, rerr, histCalls>>
chainVars == <<variant, data, env, cpc, attempts, active, failures, produced, sent,
               cresult, cerr>>
renderVars == <<renderer, rdata, fonts, ppc, browser, procOpen, raised, divisions, shot,
                registered, fontUsed, presult, perr>>
layoutVars == <<lop, lin, lout>>
vars == <<fetchVars, chainVars, renderVars, layoutVars>>

----------------------------------------------------------------------------
(* Bounds of the model. *)

MaxPts == 2      \* points in one page
MaxData == 2     \* points accumulated by one getMVRVHistory call
SafetyCap == 3   \* the page cap the specification asks for, scaled down
MaxRequests == SafetyCap + 1   \* page requests the model follows in one call
MaxLen == 2      \* points in the series handed to generateMVRVChart

----------------------------------------------------------------------------
(* JavaScript values. *)

Undefined == <<"undefined">>
EmptyString == <<>>
NaN == [kind |-> "NaN"]
Num(m, e) == [kind |-> "num", m |-> m, e |-> e]   \* the number m * 10^-e
NoError == "none"
NoValue == [kind |-> "none"]

\* ToBoolean of a string-or-undefined: only undefined and '' are falsy.
Truthy(v) == v # Undefined /\ v # EmptyString

\* obj.field, undefined when the object has no such field.
Get(obj, f) == IF f \in DOMAIN obj THEN obj[f] ELSE Undefined

Digit == {"0", "1", "2", "3", "4", "5", "6", "7", "8", "9"}
DigitVal(c) ==
  CASE c = "0" -> 0 [] c = "1" -> 1 [] c = "2" -> 2 [] c = "3" -> 3 [] c = "4" -> 4
    [] c = "5" -> 5 [] c = "6" -> 6 [] c = "7" -> 7 [] c = "8" -> 8 [] c = "9" -> 9

RECURSIVE SkipSpace(_, _)
SkipSpace(s, i) == IF i <= Len(s) /\ s[i] = " " THEN SkipSpace(s, i + 1) ELSE i

RECURSIVE DigitRun(_, _)
DigitRun(s, i) == IF i <= Len(s) /\ s[i] \in Digit THEN 1 + DigitRun(s, i + 1) ELSE 0

RECURSIVE DigitsValue(_, _, _)
DigitsValue(s, i, n) ==
  IF n = 0 THEN 0 ELSE DigitsValue(s, i, n - 1) * 10 + DigitVal(s[i + n - 1])

RECURSIVE Normalize(_, _)
Normalize(m, e) == IF e > 0 /\ m % 10 = 0 THEN Normalize(m \div 10, e - 1) ELSE Num(m, e)

\* parseFloat: the longest decimal prefix after leading blanks, NaN when there
\* is none; undefined is first converted to the string "undefined".  Signs and
\* exponents are not in the alphabet of the raw values modelled.
parseFloat(s) ==
  IF s = Undefined THEN NaN
  ELSE LET start == SkipSpace(s, 1)
           ip == DigitRun(s, start)
           dot == start + ip <= Len(s) /\ s[start + ip] = "."
           fp == IF dot THEN DigitRun(s, start + ip + 1) ELSE 0
       IN IF ip + fp = 0 THEN NaN
          ELSE Normalize(DigitsValue(s, start, ip) * (10 ^ fp)
                           + DigitsValue(s, start + ip + 1, fp), fp)

\* new Date(time).getTime(), in days since the epoch, of the ISO dates the
\* upstream is modelled to send; any other string is an Invalid Date.
TimeStrings == {"2024-01-01", "2024-01-02"}
InvalidDate == "n/a"
IsValidDate(t) == t \in TimeStrings
DateGetTime(t) ==
  CASE t = "2024-01-01" -> 19723
    [] t = "2024-01-02" -> 19724

----------------------------------------------------------------------------
(* The upstream metrics API. *)

RawValues == { <<"1", ".", "5">>, <<"3">>, EmptyString, <<"x">> }
PageValues == { <<"1", ".", "5">>, <<"3">> }

\* A point of a history page: its metric is a numeric string or is missing.
Points == [time : TimeStrings, CapMVRVCur : PageValues] \cup [time : TimeStrings]

\* A point of the short window: any raw metric, or none.
WindowPoints == [time : {"2024-01-02"}, CapMVRVCur : RawValues]
                  \cup [time : {"2024-01-02"}]

RECURSIVE SeqsUpTo(_, _)
SeqsUpTo(S, n) ==
  IF n = 0 THEN { <<>> }
  ELSE LET shorter == SeqsUpTo(S, n - 1)
       IN shorter \cup { Append(s, x) : s \in { t \in shorter : Len(t) = n - 1 }, x \in S }

FirstUrl == "asset-metrics?start_time&end_time&page_size=180"
Urls == {FirstUrl, "next_page_2", "next_page_3"}

\* The bodies a successful page request can carry.
PageBodies(room) ==
  LET datas == { d \in SeqsUpTo(Points, MaxPts) : Len(d) <= room }
  IN [data : datas, next_page_url : Urls \cup {""}] \cup [data : datas]

\* The bodies a successful short-window request can carry: a data array, or
\* an object without one.
WindowBodies == [data : SeqsUpTo(WindowPoints, 1)] \cup { [next_page_url |-> ""] }

----------------------------------------------------------------------------
(* CoinmetricsService.getMVRVHistory *)

ApiError == "Coinmetrics API error"
FetchFailed == "fetch failed"
NoMVRVValue == "No MVRV value received"

Front(s) == SubSeq(s, 1, Len(s) - 1)
Last(s) == s[Len(s)]

\* The comparator handed to Array.prototype.sort.
CompareFn(a, b) == DateGetTime(a.time) - DateGetTime(b.time)

\* An insertion that puts an element before the elements it ties with.
RECURSIVE InsertBeforeTies(_, _)
InsertBeforeTies(s, x) ==
  IF s = <<>> \/ CompareFn(Last(s), x) < 0 THEN Append(s, x)
  ELSE Append(InsertBeforeTies(Front(s), x), Last(s))

\* Array.prototype.sort is stable: an element goes after every element that
\* does not compare greater than it.
RECURSIVE InsertByTime(_, _)
InsertByTime(s, x) ==
  IF s = <<>> \/ CompareFn(Last(s), x) <= 0 THEN Append(s, x)
  ELSE Append(InsertByTime(Front(s), x), Last(s))

RECURSIVE SortedByTime(_)
SortedByTime(s) == IF s = <<>> THEN <<>> ELSE InsertByTime(SortedByTime(Front(s)), Last(s))

\* A sort call that leaves the array in arrival order.
SortByTimeSkipped(s) == s

\* allData.sort((a, b) => new Date(a.time).getTime() - new Date(b.time).getTime())
SortByTime(s) == SortedByTime(s)

\* An accumulation that keeps only the newest page.
AccumulateOverwrite(all, pageData) == pageData

\* allData = [...allData, ...data.data]
Accumulate(all, pageData) == all \o pageData

\* A continuation that is never followed.
NextUrlDropped(body) == ""

\* url = data.next_page_url || ''
NextUrl(body) ==
  IF "next_page_url" \in DOMAIN body /\ body.next_page_url # "" THEN body.next_page_url ELSE ""

\* After the loop: sort, then split into times and parsed values.
Series(all) ==
  LET sorted == SortByTime(all)
  IN [times |-> [i \in 1..Len(sorted) |-> sorted[i].time],
      values |-> [i \in 1..Len(sorted) |-> parseFloat(Get(sorted[i], "CapMVRVCur"))]]

\* A return path that rejects an empty collection instead of returning it.
FinishRejectsEmpty(all) ==
  IF all = <<>> THEN [pc |-> "failed", result |-> NoValue, err |-> "EmptyResultError"]
  ELSE [pc |-> "returned", result |-> Series(all), err |-> NoError]

\* return result
Finish(all) == [pc |-> "returned", result |-> Series(all), err |-> NoError]

\* A status check that ends pagination and returns what was received so far.
OnNotOkReturnsPartial(all) == Finish(all)

\* if (!response.ok) throw ...; the catch logs and rethrows.
OnNotOk(all) == [pc |-> "failed", result |-> NoValue, err |-> ApiError]

BeginHistory ==
  /\ hpc' = "loop"
  /\ url' = FirstUrl
  /\ allData' = <<>>
  /\ UNCHANGED <<hresult, herr, requests, inflight, responses, upstream>>

\* A caller other than getBitcoinMVRV invokes getMVRVHistory.
CallHistory ==
  /\ hpc = "idle" /\ rpc = "idle"
  /\ BeginHistory
  /\ UNCHANGED <<rpc, window, rresult, rerr, histCalls>>
  /\ UNCHANGED <<chainVars, renderVars, layoutVars>>

\* while (url) { ... await fetch(url, ...) }
HistRequest ==
  /\ hpc = "loop" /\ url # ""
  /\ Len(requests) < MaxRequests
  /\ requests' = Append(requests, url)
  /\ inflight' = inflight + 1
  /\ hpc' = "await"
  /\ UNCHANGED <<url, allData, hresult, herr, responses, upstream,
                 rpc, window, rresult, rerr, histCalls>>
  /\ UNCHANGED <<chainVars, renderVars, layoutVars>>

\* The page arrives with a success status: fold it in, then either go round
\* the loop again or leave it, sort, parse and return.
HistResponseOk ==
  /\ hpc = "await"
  /\ \E body \in IF url \in DOMAIN upstream THEN {upstream[url]}
                  ELSE PageBodies(MaxData - Len(allData)) :
       LET all == Accumulate(allData, body.data)
           next == NextUrl(body)
           done == Finish(all)
       IN /\ Len(all) <= MaxData
          /\ upstream' = [u \in DOMAIN upstream \cup {url} |->
                            IF u = url THEN body ELSE upstream[u]]
          /\ allData' = all
          /\ url' = next
          /\ inflight' = inflight - 1
          /\ responses' = Append(responses, "ok")
          /\ IF next # ""
               THEN hpc' = "loop" /\ UNCHANGED <<hresult, herr>>
               ELSE hpc' = done.pc /\ hresult' = done.result /\ herr' = done.err
  /\ UNCHANGED <<requests, rpc, window, rresult, rerr, histCalls>>
  /\ UNCHANGED <<chainVars, renderVars, layoutVars>>

\* The page arrives with a non-success status.
HistResponseNotOk ==
  /\ hpc = "await"
  /\ LET out == OnNotOk(allData)
     IN hpc' = out.pc /\ hresult' = out.result /\ herr' = out.err
  /\ inflight' = inflight - 1
  /\ responses' = Append(responses, "notok")
  /\ UNCHANGED <<url, allData, requests, upstream,
                 rpc, window, rresult, rerr, histCalls>>
  /\ UNCHANGED <<chainVars, renderVars, layoutVars>>

\* fetch() itself rejects (no connection, aborted transfer).
HistFetchReject ==
  /\ hpc = "await"
  /\ hpc' = "failed" /\ herr' = FetchFailed
  /\ inflight' = inflight - 1
  /\ responses' = Append(responses, "reject")
  /\ UNCHANGED <<url, allData, hresult, requests, upstream,
                 rpc, window, rresult, rerr, histCalls>>
  /\ UNCHANGED <<chainVars, renderVars, layoutVars>>

----------------------------------------------------------------------------
(* CoinmetricsService.getBitcoinMVRV *)

\* lastPoint?.CapMVRVCur, where lastPoint is the last element of data.data
\* when data.data exists and is not empty.
LastPointValue(body) ==
  IF "data" \in DOMAIN body /\ Len(body.data) > 0
    THEN Get(body.data[Len(body.data)], "CapMVRVCur")
    ELSE Undefined

\* A fallback that reads the oldest value of the history.
FallbackFirstValue(history) == history.values[1]

\* history.values[history.values.length - 1]
FallbackValue(history) == history.values[Len(history.values)]

\* How many getMVRVHistory calls the fallback branch makes.
FallbackCalls == 1

\* A test that also rejects a history whose last value is not a number.
HistoryHasNoValueOrNaN(history) ==
  Len(history.values) = 0 \/ history.values[Len(history.values)] = NaN

\* if (!history.values.length)
HistoryHasNoValue(history) == Len(history.values) = 0

\* A catch that replaces the error it caught.
WindowCatchReplaces(e) == NoMVRVValue

\* catch (error) { Logger.error(...); throw error; }
WindowCatch(e) == e

CallResolver ==
  /\ hpc = "idle" /\ rpc = "idle"
  /\ rpc' = "await_window"
  /\ UNCHANGED <<hpc, url, allData, hresult, herr, requests, inflight, responses, upstream,
                 window, rresult, rerr, histCalls>>
  /\ UNCHANGED <<chainVars, renderVars, layoutVars>>

\* The short-window request returns a non-success status, or fetch rejects:
\* the catch logs and rethrows.
WindowFail ==
  /\ rpc = "await_window"
  /\ rpc' = "failed"
  /\ \E e \in {ApiError, FetchFailed} : rerr' = WindowCatch(e)
  /\ UNCHANGED <<hpc, url, allData, hresult, herr, requests, inflight, responses, upstream,
                 window, rresult, histCalls>>
  /\ UNCHANGED <<chainVars, renderVars, layoutVars>>

\* The short-window request succeeds: return its last value, or fall back to
\* the full history when the last point has none.
WindowOk ==
  /\ rpc = "await_window"
  /\ \E body \in WindowBodies :
       /\ window' = body
       /\ IF ~Truthy(LastPointValue(body))
            THEN /\ histCalls' = histCalls + FallbackCalls
                 /\ BeginHistory
                 /\ rpc' = "in_history"
                 /\ UNCHANGED <<rresult, rerr>>
            ELSE /\ rresult' = parseFloat(LastPointValue(body))
                 /\ rpc' = "returned"
                 /\ UNCHANGED <<hpc, url, allData, hresult, herr, requests, inflight,
                                responses, upstream, rerr, histCalls>>
  /\ UNCHANGED <<chainVars, renderVars, layoutVars>>

\* The awaited getMVRVHistory settles.
ResolverResume ==
  /\ rpc = "in_history" /\ hpc \in {"returned", "failed"}
  /\ IF hpc = "failed"
       THEN rpc' = "failed" /\ rerr' = herr /\ UNCHANGED rresult
       ELSE IF HistoryHasNoValue(hresult)
              THEN rpc' = "failed" /\ rerr' = NoMVRVValue /\ UNCHANGED rresult
              ELSE rpc' = "returned" /\ rresult' = FallbackValue(hresult) /\ UNCHANGED rerr
  /\ UNCHANGED <<hpc, url, allData, hresult, herr, requests, inflight, responses, upstream,
                 window, histCalls>>
  /\ UNCHANGED <<chainVars, renderVars, layoutVars>>

FetchIdle ==
  /\ hpc = "idle" /\ url = "" /\ allData = <<>>
  /\ hresult = NoValue /\ herr = NoError
  /\ requests = <<>> /\ inflight = 0 /\ responses = <<>>
  /\ upstream = [u \in {} |-> NoValue]
  /\ rpc = "idle" /\ window = NoValue /\ rresult = NoValue /\ rerr = NoError
  /\ histCalls = 0

ChainIdle ==
  /\ variant = "none" /\ data = NoValue /\ env = NoValue /\ cpc = "idle"
  /\ attempts = <<>> /\ active = {} /\ failures = <<>>
  /\ produced = <<>> /\ sent = <<>>
  /\ cresult = NoValue /\ cerr = NoError

RenderIdle ==
  /\ renderer = "none" /\ rdata = NoValue /\ fonts = NoValue /\ ppc = "idle"
  /\ browser = "undefined" /\ procOpen = FALSE /\ raised = <<>>
  /\ divisions = {} /\ shot = NoValue /\ registered = {} /\ fontUsed = "none"
  /\ presult = NoValue /\ perr = NoError

LayoutIdle == lop = "none" /\ lin = NoValue /\ lout = NoValue

InitFetch == FetchIdle /\ ChainIdle /\ RenderIdle /\ LayoutIdle

NextFetch ==
  \/ CallHistory
  \/ HistRequest
  \/ HistResponseOk
  \/ HistResponseNotOk
  \/ HistFetchReject
  \/ CallResolver
  \/ WindowFail
  \/ WindowOk
  \/ ResolverResume

SpecFetch == InitFetch /\ [][NextFetch]_vars

----------------------------------------------------------------------------
(* ChartService.generateMVRVChart: the chained variants. *)

Variants == {"part_003", "part_004", "part_005"}

\* The series handed to the chart service: its times may hold a string that
\* does not parse as a date.
ChartTimes == {"2024-01-01", InvalidDate}
ChartInputs ==
  { [times |-> t, values |-> [i \in DOMAIN t |-> Num(15, 1)]] : t \in SeqsUpTo(ChartTimes, MaxLen) }

\* process.env: a variable is unset (undefined) or holds a non-empty string.
Environments ==
  [PUBLIC_BASE_URL : {Undefined, <<"bot.example.org">>},
   VERCEL_URL : {Undefined, <<"bot.vercel.app">>},
   SCREENSHOT_PROVIDER : {Undefined, <<"urlbox">>, <<"screenshotone">>, <<"puppeteer">>},
   URLBOX_API_KEY : {Undefined, <<"sk_1">>},
   SCREENSHOTONE_KEY : {Undefined, <<"ak_1">>}]

\* The images a backend can produce.
PngSamples == {"png-a", "png-b"}

\* Buffer.from(bytes): a Buffer over the same bytes.
BufferFrom(bytes) == [buffer |-> bytes]

InvalidTimeValue == "RangeError: Invalid time value"
QuickChartFailed == "QuickChart failed"
ResvgFailed == "Resvg failed"
MissingBaseUrl == "Missing PUBLIC_BASE_URL or VERCEL_URL for remote screenshot fallback"
MissingUrlboxKey == "Missing URLBOX_API_KEY"
MissingScreenshotOneKey == "Missing SCREENSHOTONE_KEY"
UnsupportedProvider == "Unsupported SCREENSHOT_PROVIDER"
ScreenshotFailed == "Screenshot provider failed"

\* The indices the x-label loop visits: 0, step, 2*step, ... with
\* step = Math.ceil(n / 6).
LabelIndices(n) ==
  IF n = 0 THEN {} ELSE LET step == (n + 5) \div 6 IN { i \in 0..(n - 1) : i % step = 0 }

\* format(new Date(times[i]), 'dd/MM') throws a RangeError on an Invalid Date.
PrepThrows(d) == \E i \in LabelIndices(Len(d.times)) : ~IsValidDate(d.times[i + 1])

\* Whether the font is fetched over the network before the SVG is built
\* (otherwise it is read from the local file system, synchronously).
FetchesFont(v) == v \in {"part_003", "part_005"}

\* The first backend block after the SVG string is built.
FirstBackend(v) == IF v = "part_003" THEN "resvg" ELSE "quickchart"

\* The block that follows the block of backend b in the function body.
NextBackend(v, b) ==
  CASE b = "quickchart" -> "resvg" [] b = "resvg" -> "screenshot" [] OTHER -> "none"

\* A Resvg block that logs its success and carries on.
ReturnsExceptResvg(b) == b # "resvg"

\* Whether the success path of the block of backend b ends in a return.
Returns(b) == TRUE

\* const projectUrl = process.env.PUBLIC_BASE_URL || process.env.VERCEL_URL
\*   ? `https://${process.env.VERCEL_URL}` : '';
\* (the conditional binds weaker than ||).
ProjectUrl(e) ==
  IF Truthy(e.PUBLIC_BASE_URL) \/ Truthy(e.VERCEL_URL)
    THEN <<"https://">> \o e.VERCEL_URL
    ELSE EmptyString

\* A fallback that builds the provider request without looking at the keys.
ScreenshotConfigSkipsKeys(e) ==
  LET projectUrl == ProjectUrl(e)
      provider == IF Truthy(e.SCREENSHOT_PROVIDER) THEN e.SCREENSHOT_PROVIDER ELSE <<"urlbox">>
  IN IF ~Truthy(projectUrl) THEN [ok |-> FALSE, err |-> MissingBaseUrl]
     ELSE IF provider = <<"screenshotone">>
       THEN [ok |-> TRUE, to |-> "api.screenshotone.com", target |-> projectUrl]
     ELSE [ok |-> TRUE, to |-> "api.urlbox.io", target |-> projectUrl]

\* The screenshot fallback up to its request: the provider and the page to
\* capture, or the error thrown before any request is made.
ScreenshotConfig(e) ==
  LET projectUrl == ProjectUrl(e)
      provider == IF Truthy(e.SCREENSHOT_PROVIDER) THEN e.SCREENSHOT_PROVIDER ELSE <<"urlbox">>
  IN IF ~Truthy(projectUrl) THEN [ok |-> FALSE, err |-> MissingBaseUrl]
     ELSE IF provider = <<"urlbox">>
       THEN IF ~Truthy(e.URLBOX_API_KEY) THEN [ok |-> FALSE, err |-> MissingUrlboxKey]
            ELSE [ok |-> TRUE, to |-> "api.urlbox.io", target |-> projectUrl]
     ELSE IF provider = <<"screenshotone">>
       THEN IF ~Truthy(e.SCREENSHOTONE_KEY) THEN [ok |-> FALSE, err |-> MissingScreenshotOneKey]
            ELSE [ok |-> TRUE, to |-> "api.screenshotone.com", target |-> projectUrl]
     ELSE [ok |-> FALSE, err |-> UnsupportedProvider]

\* The call's own state, as the blocks below pass it along.
ChainState ==
  [pc |-> cpc, attempts |-> attempts, active |-> active, failures |-> failures,
   produced |-> produced, sent |-> sent, result |-> cresult, err |-> cerr]

Apply(cs) ==
  /\ cpc' = cs.pc /\ attempts' = cs.attempts /\ active' = cs.active
  /\ failures' = cs.failures /\ produced' = cs.produced /\ sent' = cs.sent
  /\ cresult' = cs.result /\ cerr' = cs.err

RECURSIVE Enter(_, _, _)
RECURSIVE Succeeded(_, _, _, _)
RECURSIVE Failed(_, _, _, _)

\* The attempt of backend b produced an image: return it.
Succeeded(cs, b, bytes, resvg) ==
  LET got == [cs EXCEPT !.produced = Append(@, [backend |-> b, bytes |-> bytes]),
                        !.active = @ \ {b}]
  IN IF Returns(b) \/ NextBackend(variant, b) = "none"
       THEN [got EXCEPT !.pc = "returned", !.result = BufferFrom(bytes)]
       ELSE Enter(got, NextBackend(variant, b), resvg)

\* The attempt of backend b raised e: a block inside its own try/catch logs
\* and falls through to the next block; the last block is only inside the
\* function's outer try, whose catch logs and rethrows.
Failed(cs, b, e, resvg) ==
  LET lost == [cs EXCEPT !.failures = Append(@, [backend |-> b, error |-> e]),
                         !.active = @ \ {b}]
  IN IF NextBackend(variant, b) = "none"
       THEN [lost EXCEPT !.pc = "thrown", !.err = e]
       ELSE Enter(lost, NextBackend(variant, b), resvg)

\* Control reaches the block of backend b and runs until the next await, a
\* return or a throw.  resvg is what the local rasterizer does if it is run.
Enter(cs, b, resvg) ==
  LET in == [cs EXCEPT !.attempts = Append(@, b)]
  IN CASE b = "quickchart" ->
            [in EXCEPT !.pc = "quickchart_wait", !.active = @ \cup {b},
                       !.sent = Append(@, "quickchart.io")]
       [] b = "resvg" ->
            IF resvg.ok THEN Succeeded(in, b, resvg.bytes, resvg)
            ELSE Failed(in, b, ResvgFailed, resvg)
       [] b = "screenshot" ->
            LET cfg == ScreenshotConfig(env)
            IN IF cfg.ok
                 THEN [in EXCEPT !.pc = "screenshot_wait", !.active = @ \cup {b},
                                 !.sent = Append(@, cfg.to)]
                 ELSE Failed(in, b, cfg.err, resvg)

\* What new Resvg(svg).render().asPng() can do: produce a PNG or throw.
ResvgOutcomes == [ok : {TRUE}, bytes : PngSamples] \cup { [ok |-> FALSE] }

\* What a remote request can do: answer with a success status and a body,
\* answer with a non-success status, or reject.
RemoteOutcomes ==
  [kind : {"ok"}, bytes : PngSamples] \cup { [kind |-> "notok"], [kind |-> "reject"] }

CallChart ==
  /\ cpc = "idle"
  /\ \E v \in Variants, d \in ChartInputs, e \in Environments :
       variant' = v /\ data' = d /\ env' = e
  /\ cpc' = "prep"
  /\ UNCHANGED <<attempts, active, failures, produced, sent, cresult, cerr>>
  /\ UNCHANGED <<fetchVars, renderVars, layoutVars>>

\* From the entry of the function to its first await: the line points and x
\* labels, then the font (a network fetch, or a local read inside its own
\* try/catch), the SVG string, and the first backend block.
Prepare ==
  /\ cpc = "prep"
  /\ IF PrepThrows(data)
       THEN Apply([ChainState EXCEPT !.pc = "thrown", !.err = InvalidTimeValue])
       ELSE IF FetchesFont(variant)
         THEN Apply([ChainState EXCEPT !.pc = "font_wait",
                                       !.sent = Append(@, "raw.githubusercontent.com")])
         ELSE \E r \in ResvgOutcomes : Apply(Enter(ChainState, FirstBackend(variant), r))
  /\ UNCHANGED <<variant, data, env>>
  /\ UNCHANGED <<fetchVars, renderVars, layoutVars>>

\* The font request settles, whichever way (its try/catch swallows a
\* failure): build the SVG string and reach the first backend block.
FontSettled ==
  /\ cpc = "font_wait"
  /\ \E r \in ResvgOutcomes : Apply(Enter(ChainState, FirstBackend(variant), r))
  /\ UNCHANGED <<variant, data, env>>
  /\ UNCHANGED <<fetchVars, renderVars, layoutVars>>

\* The chart service answers, or the request fails.
QuickChartSettled ==
  /\ cpc = "quickchart_wait"
  /\ \E o \in RemoteOutcomes, r \in ResvgOutcomes :
       IF o.kind = "ok"
         THEN Apply(Succeeded(ChainState, "quickchart", o.bytes, r))
         ELSE Apply(Failed(ChainState, "quickchart",
                           IF o.kind = "notok" THEN QuickChartFailed ELSE FetchFailed, r))
  /\ UNCHANGED <<variant, data, env>>
  /\ UNCHANGED <<fetchVars, renderVars, layoutVars>>

\* The screenshot provider answers, or the request fails.
ScreenshotSettled ==
  /\ cpc = "screenshot_wait"
  /\ \E o \in RemoteOutcomes, r \in ResvgOutcomes :
       IF o.kind = "ok"
         THEN Apply(Succeeded(ChainState, "screenshot", o.bytes, r))
         ELSE Apply(Failed(ChainState, "screenshot",
                           IF o.kind = "notok" THEN ScreenshotFailed ELSE FetchFailed, r))
  /\ UNCHANGED <<variant, data, env>>
  /\ UNCHANGED <<fetchVars, renderVars, layoutVars>>

\* What each backend of a chain is told to draw.  Values of the y axis are
\* counted in quarters: 1.0 is 4, 3.0 is 12, 3.5 is 14, 4 is 16, 4.5 is 18.

\* The upper end of the y axis: yMax of the local SVG, scales.y.max of the
\* chart-service configuration and of the page the screenshot provider opens.
YMax(v, b) ==
  CASE b = "resvg" -> IF v = "part_004" THEN 16 ELSE 18
    [] b = "quickchart" -> IF v = "part_004" THEN 16 ELSE 18
    [] b = "screenshot" -> 16

\* Adjacent regions, each from the previous edge up to its own.
StackedZones(top) ==
  << [band |-> "green", lo |-> 0, hi |-> 4], [band |-> "yellow", lo |-> 4, hi |-> 12],
     [band |-> "orange", lo |-> 12, hi |-> 14], [band |-> "red", lo |-> 14, hi |-> top] >>

\* Regions that each start at the origin (fill: true).
OriginZones(top) ==
  << [band |-> "red", lo |-> 0, hi |-> top], [band |-> "orange", lo |-> 0, hi |-> 14],
     [band |-> "yellow", lo |-> 0, hi |-> 12], [band |-> "green", lo |-> 0, hi |-> 4] >>

\* The filled regions: the four <rect> of the SVG (the red one reaches
\* chartArea.top), or the four constant datasets with their fill modes (the
\* red one is the constant 4).
Zones(v, b) ==
  CASE b = "resvg" -> StackedZones(YMax(v, b))
    [] b = "quickchart" -> IF v = "part_005" THEN OriginZones(16) ELSE StackedZones(16)
    [] b = "screenshot" -> StackedZones(16)

\* The background: the full-size <rect> of the SVG when there is one, the
\* backgroundColor of the chart-service request, the page's background plugin.
Background(v, b) ==
  CASE b = "resvg" -> IF v = "part_004" THEN "#e9ecef" ELSE "none"
    [] b = "quickchart" -> IF v = "part_004" THEN "#e9ecef" ELSE "transparent"
    [] b = "screenshot" -> "#e9ecef"

InitChain == FetchIdle /\ ChainIdle /\ RenderIdle /\ LayoutIdle

NextChain ==
  \/ CallChart
  \/ Prepare
  \/ FontSettled
  \/ QuickChartSettled
  \/ ScreenshotSettled

SpecChain == InitChain /\ [][NextChain]_vars

\* The event loop runs a call that is ready to run; nothing obliges a remote
\* service to answer, and no request carries a timeout or an abort signal.
SpecChainLive == InitChain /\ [][NextChain]_vars /\ WF_vars(CallChart) /\ WF_vars(Prepare)

----------------------------------------------------------------------------
(* ChartService.generateMVRVChart: the single-backend variants. *)

Renderers == {"canvas", "resvg_only", "puppeteer", "chartjs"}

\* assets/fonts: DejaVuSans.ttf is readable, unreadable or absent; the Open
\* Sans pair is present or absent.
FontEnvs == [dejavu : {"ok", "corrupt", "absent"}, opensans : {"ok", "absent"}]

CanvasFailed == "Canvas failed"
ExecutablePathFailed == "chromium.executablePath failed"
LaunchFailed == "puppeteer.launch failed"
NewPageFailed == "browser.newPage failed"
SetContentFailed == "page.setContent failed"
PageScreenshotFailed == "page.screenshot failed"
CloseFailed == "browser.close failed"
ImportFailed == "import('chart.js/auto') failed"

\* An index range that runs one past the last point.
LineIndicesInclusive(n) == 0..n

\* The indices data.values.map / forEach hands to getX.
LineIndices(n) == 0..(n - 1)

\* getX(index): the quotient index / (data.values.length - 1) it evaluates.
GetXQuotient(i, n) == [num |-> i, den |-> n - 1]

\* The first x label whose date does not format.
FirstBadLabel(d) ==
  CHOOSE i \in LabelIndices(Len(d.times)) :
    /\ ~IsValidDate(d.times[i + 1])
    /\ \A j \in LabelIndices(Len(d.times)) : j < i => IsValidDate(d.times[j + 1])

\* The quotients evaluated for the x labels: the loop stops at the label whose
\* format() throws.
LabelDivisions(d) ==
  { GetXQuotient(i, Len(d.values)) :
      i \in { j \in LabelIndices(Len(d.times)) : PrepThrows(d) => j <= FirstBadLabel(d) } }

LineDivisions(d) == { GetXQuotient(i, Len(d.values)) : i \in LineIndices(Len(d.values)) }

\* The quotients evaluated before the rasterizer runs.  The canvas variant
\* builds the labels first and draws the line later; the SVG and HTML
\* variants build the line points first; the Chart.js variant never calls getX.
PrepDivisions(r, d) ==
  CASE r = "canvas" -> LabelDivisions(d) \cup (IF PrepThrows(d) THEN {} ELSE LineDivisions(d))
    [] r \in {"resvg_only", "puppeteer"} -> LineDivisions(d) \cup LabelDivisions(d)
    [] OTHER -> {}

\* The family the canvas variant sets ctx.font to, whatever registerFromPath did.
CanvasFontFamily(f) == "EmbedDejaVu"
CanvasRegistered(f) == IF f.dejavu = "ok" THEN {"EmbedDejaVu"} ELSE {}

\* The family the Resvg-only variant names in every text element and as
\* defaultFontFamily; fontFiles makes it available when the file loads.
ResvgOnlyFontFamily(f) == "DejaVu Sans"
ResvgOnlyRegistered(f) == IF f.dejavu = "ok" THEN {"DejaVu Sans"} ELSE {}

\* The last family of the HTML page's font-family stack.
PageFontFamily == "sans-serif"

\* The font selection of the Chart.js variant.  On an unreadable file
\* registerFromPath either throws (swallowed) or reports failure by its
\* return value.
ChartJsFont(f, throws) ==
  LET deja == IF f.dejavu = "ok" THEN [family |-> "DejaVu Sans", reg |-> {"DejaVu Sans"}]
              ELSE IF f.dejavu = "corrupt" /\ ~throws THEN [family |-> "DejaVu Sans", reg |-> {}]
              ELSE [family |-> "Open Sans", reg |-> {}]
      open == IF deja.family \notin deja.reg /\ f.opensans = "ok"
                THEN [deja EXCEPT !.reg = @ \cup {deja.family}]
                ELSE deja
  IN IF open.family \notin open.reg THEN [open EXCEPT !.family = "sans-serif"] ELSE open

\* labels: data.times.map(time => format(new Date(time), 'dd/MM'))
LabelsThrow(d) == \E i \in DOMAIN d.times : ~IsValidDate(d.times[i])

\* The function's catch rethrows e.
Throw(e) == ppc' = "thrown" /\ perr' = e /\ raised' = Append(raised, e) /\ UNCHANGED presult

Return(buffer) == ppc' = "returned" /\ presult' = buffer /\ UNCHANGED <<perr, raised>>

CallRenderer ==
  /\ ppc = "idle"
  /\ \E r \in Renderers, d \in ChartInputs, f \in FontEnvs :
       renderer' = r /\ rdata' = d /\ fonts' = f
  /\ ppc' = "called"
  /\ UNCHANGED <<browser, procOpen, raised, divisions, shot, registered, fontUsed,
                 presult, perr>>
  /\ UNCHANGED <<fetchVars, chainVars, layoutVars>>


\* What canvas.toBuffer (and the native canvas behind it) can do.
CanvasOutcomes == [ok : {TRUE}, bytes : PngSamples] \cup { [ok |-> FALSE] }

\* The canvas variant, synchronous from entry to return: x labels, font
\* registration, background, zones, grid, line, texts, toBuffer.
CanvasRun ==
  /\ ppc = "called" /\ renderer = "canvas"
  /\ divisions' = PrepDivisions(renderer, rdata)
  /\ IF PrepThrows(rdata)
       THEN Throw(InvalidTimeValue) /\ UNCHANGED <<registered, fontUsed>>
       ELSE /\ registered' = CanvasRegistered(fonts)
            /\ fontUsed' = CanvasFontFamily(fonts)
            /\ \E o \in CanvasOutcomes :
                 IF o.ok THEN Return([buffer |-> o.bytes]) ELSE Throw(CanvasFailed)
  /\ UNCHANGED <<renderer, rdata, fonts, browser, procOpen, shot>>
  /\ UNCHANGED <<fetchVars, chainVars, layoutVars>>

\* The Resvg-only variant, synchronous from entry to return: line points,
\* x labels, SVG string, new Resvg(...).render().asPng().
ResvgOnlyRun ==
  /\ ppc = "called" /\ renderer = "resvg_only"
  /\ divisions' = PrepDivisions(renderer, rdata)
  /\ IF PrepThrows(rdata)
       THEN Throw(InvalidTimeValue) /\ UNCHANGED <<registered, fontUsed>>
       ELSE /\ registered' = ResvgOnlyRegistered(fonts)
            /\ fontUsed' = ResvgOnlyFontFamily(fonts)
            /\ \E o \in ResvgOutcomes :
                 IF o.ok THEN Return(BufferFrom(o.bytes)) ELSE Throw(ResvgFailed)
  /\ UNCHANGED <<renderer, rdata, fonts, browser, procOpen, shot>>
  /\ UNCHANGED <<fetchVars, chainVars, layoutVars>>

\* An error e is raised inside the try of the headless-browser variant: the
\* catch awaits browser.close() when a browser was launched, then rethrows e.
Catch(e) ==
  /\ raised' = Append(raised, e)
  /\ IF browser = "handle"
       THEN ppc' = "catch_close_wait" /\ UNCHANGED perr
       ELSE ppc' = "thrown" /\ perr' = e
  /\ UNCHANGED presult

\* Headless-browser variant, from entry to await chromium.executablePath().
PuppeteerStart ==
  /\ ppc = "called" /\ renderer = "puppeteer"
  /\ divisions' = PrepDivisions(renderer, rdata)
  /\ IF PrepThrows(rdata)
       THEN Catch(InvalidTimeValue) /\ UNCHANGED fontUsed
       ELSE /\ fontUsed' = PageFontFamily
            /\ ppc' = "execpath_wait"
            /\ UNCHANGED <<raised, presult, perr>>
  /\ UNCHANGED <<renderer, rdata, fonts, browser, procOpen, shot, registered>>
  /\ UNCHANGED <<fetchVars, chainVars, layoutVars>>

ExecPathSettled ==
  /\ ppc = "execpath_wait"
  /\ \/ ppc' = "launch_wait" /\ UNCHANGED <<raised, presult, perr>>
     \/ Catch(ExecutablePathFailed)
  /\ UNCHANGED <<renderer, rdata, fonts, browser, procOpen, divisions, shot, registered,
                 fontUsed>>
  /\ UNCHANGED <<fetchVars, chainVars, layoutVars>>

\* puppeteer.launch settles: on success `browser` is assigned.
LaunchSettled ==
  /\ ppc = "launch_wait"
  /\ \/ /\ browser' = "handle" /\ procOpen' = TRUE
        /\ ppc' = "newpage_wait"
        /\ UNCHANGED <<raised, presult, perr>>
     \/ Catch(LaunchFailed) /\ UNCHANGED <<browser, procOpen>>
  /\ UNCHANGED <<renderer, rdata, fonts, divisions, shot, registered, fontUsed>>
  /\ UNCHANGED <<fetchVars, chainVars, layoutVars>>

\* browser.newPage(), page.setContent(html) or page.screenshot(...) settles.
BrowserStepSettled ==
  /\ ppc \in {"newpage_wait", "setcontent_wait", "screenshot_wait"}
  /\ \/ /\ ppc = "newpage_wait" /\ ppc' = "setcontent_wait"
        /\ UNCHANGED <<raised, presult, perr, shot>>
     \/ /\ ppc = "setcontent_wait" /\ ppc' = "screenshot_wait"
        /\ UNCHANGED <<raised, presult, perr, shot>>
     \/ /\ ppc = "screenshot_wait" /\ ppc' = "close_wait"
        /\ \E bytes \in PngSamples : shot' = [buffer |-> bytes]
        /\ UNCHANGED <<raised, presult, perr>>
     \/ /\ Catch(CASE ppc = "newpage_wait" -> NewPageFailed
                   [] ppc = "setcontent_wait" -> SetContentFailed
                   [] OTHER -> PageScreenshotFailed)
        /\ UNCHANGED shot
  /\ UNCHANGED <<renderer, rdata, fonts, browser, procOpen, divisions, registered, fontUsed>>
  /\ UNCHANGED <<fetchVars, chainVars, layoutVars>>

\* The browser.close() of the success path settles.  When it rejects, the
\* process may or may not have gone.
CloseSettled ==
  /\ ppc = "close_wait"
  /\ \/ procOpen' = FALSE /\ Return(shot)
     \/ procOpen' \in BOOLEAN /\ Catch(CloseFailed)
  /\ UNCHANGED <<renderer, rdata, fonts, browser, divisions, shot, registered, fontUsed>>
  /\ UNCHANGED <<fetchVars, chainVars, layoutVars>>

\* The browser.close() awaited inside the catch settles: on success the caught
\* error is rethrown; when it rejects, its rejection leaves the catch instead.
CatchCloseSettled ==
  /\ ppc = "catch_close_wait"
  /\ \/ /\ procOpen' = FALSE
        /\ ppc' = "thrown" /\ perr' = raised[Len(raised)]
        /\ UNCHANGED <<raised, presult>>
     \/ /\ procOpen' \in {procOpen, FALSE}
        /\ Throw(CloseFailed)
  /\ UNCHANGED <<renderer, rdata, fonts, browser, divisions, shot, registered, fontUsed>>
  /\ UNCHANGED <<fetchVars, chainVars, layoutVars>>

\* Chart.js variant, from entry to await import('chart.js/auto'): font
\* registration with its fallbacks, createCanvas.
ChartJsStart ==
  /\ ppc = "called" /\ renderer = "chartjs"
  /\ \E throws \in BOOLEAN :
       LET font == ChartJsFont(fonts, throws)
       IN registered' = font.reg /\ fontUsed' = font.family
  /\ divisions' = PrepDivisions(renderer, rdata)
  /\ ppc' = "import_wait"
  /\ UNCHANGED <<renderer, rdata, fonts, browser, procOpen, raised, shot, presult, perr>>
  /\ UNCHANGED <<fetchVars, chainVars, layoutVars>>

\* The import settles: configuration (labels for every time), new ChartJS,
\* then the title overlay inside its own try/catch, which awaits loadImage
\* unless Resvg threw first.
ImportSettled ==
  /\ ppc = "import_wait"
  /\ \/ Throw(ImportFailed)
     \/ IF LabelsThrow(rdata)
          THEN Throw(InvalidTimeValue)
          ELSE \E r \in ResvgOutcomes :
                 IF r.ok THEN ppc' = "overlay_wait" /\ UNCHANGED <<raised, presult, perr>>
                 ELSE \E bytes \in PngSamples : Return([buffer |-> bytes])
  /\ UNCHANGED <<renderer, rdata, fonts, browser, procOpen, divisions, shot, registered,
                 fontUsed>>
  /\ UNCHANGED <<fetchVars, chainVars, layoutVars>>

\* loadImage settles (a rejection is swallowed): canvas.toBuffer, return.
OverlaySettled ==
  /\ ppc = "overlay_wait"
  /\ \E bytes \in PngSamples : Return([buffer |-> bytes])
  /\ UNCHANGED <<renderer, rdata, fonts, browser, procOpen, divisions, shot, registered,
                 fontUsed>>
  /\ UNCHANGED <<fetchVars, chainVars, layoutVars>>

InitRender == FetchIdle /\ ChainIdle /\ RenderIdle /\ LayoutIdle

NextRender ==
  \/ CallRenderer
  \/ CanvasRun
  \/ ResvgOnlyRun
  \/ PuppeteerStart
  \/ ExecPathSettled
  \/ LaunchSettled
  \/ BrowserStepSettled
  \/ CloseSettled
  \/ CatchCloseSettled
  \/ ChartJsStart
  \/ ImportSettled
  \/ OverlaySettled

SpecRender == InitRender /\ [][NextRender]_vars

----------------------------------------------------------------------------
(* The layout arithmetic of generateMVRVChart.  Coordinates are exact        *)
(* rationals num/den with den > 0; values of the y axis are counted in       *)
(* quarters (1.0 is 4), as in YMax.                                          *)

MaxPlot == 3      \* points in a series whose line points are computed
MaxFactor == 3    \* series lengths up to MaxFactor * maxPoints + 1 are sampled

ChartWidth == 1200
ChartHeight == 675
PadLeft == 80
PadRight == 40
PadTop == 80
PadBottom == 60

\* chartArea
AreaLeft == PadLeft
AreaTop == PadTop
AreaRight == ChartWidth - PadRight
AreaBottom == ChartHeight - PadBottom
AreaWidth == ChartWidth - PadLeft - PadRight
AreaHeight == ChartHeight - PadTop - PadBottom

\* The y maxima in use: 4 and 4.5.
PlotYMax == {16, 18}

RECURSIVE Gcd(_, _)
Gcd(a, b) == IF b = 0 THEN a ELSE Gcd(b, a % b)
Abs(a) == IF a < 0 THEN -a ELSE a

\* The fraction n / d in lowest terms, d # 0.
Rat(n, d) ==
  LET g == Gcd(Abs(n), Abs(d))
      sign == IF d < 0 THEN -1 ELSE 1
  IN [kind |-> "rat", num |-> sign * (n \div g), den |-> sign * (d \div g)]
Infinity == [kind |-> "Infinity"]
IsRat(a) == a.kind = "rat"
RatEq(a, b) == IsRat(a) /\ IsRat(b) /\ a.num * b.den = b.num * a.den
RatLe(a, b) == IsRat(a) /\ IsRat(b) /\ a.num * b.den <= b.num * a.den
RatLt(a, b) == IsRat(a) /\ IsRat(b) /\ a.num * b.den < b.num * a.den
RatSub(a, b) == IF IsRat(a) /\ IsRat(b) THEN Rat(a.num * b.den - b.num * a.den, a.den * b.den)
                ELSE NaN
RatAdd(a, b) == IF IsRat(a) /\ IsRat(b) THEN Rat(a.num * b.den + b.num * a.den, a.den * b.den)
                ELSE NaN

\* A number of the series, in quarters.
Q(k) == [kind |-> "q", k |-> k]

\* a / b on integers: 0 / 0 is NaN and k / 0 is an infinity, neither throws.
JsDivide(a, b) ==
  IF b = 0 THEN (IF a = 0 THEN NaN ELSE Infinity) ELSE Rat(a, b)

\* A mapping that divides the index by the length.
GetXOverLength(i, n) == Rat(AreaLeft * n + i * AreaWidth, n)

\* getX(index) = chartArea.left + (index / (data.values.length - 1)) * chartArea.width
GetX(i, n) ==
  LET q == JsDivide(GetXQuotient(i, n).num, GetXQuotient(i, n).den)
  IN IF IsRat(q) THEN Rat(AreaLeft * q.den + q.num * AreaWidth, q.den) ELSE q

\* Math.max(yMin, Math.min(yMax, value)); NaN goes through both.
Clamp(v, yMax) ==
  IF v = NaN THEN NaN
  ELSE IF v.k > yMax THEN Q(yMax) ELSE IF v.k < 0 THEN Q(0) ELSE v

\* getY(value) = chartArea.bottom - ((value - yMin) / (yMax - yMin)) * chartArea.height
GetY(v, yMax) ==
  IF v = NaN THEN NaN ELSE Rat(AreaBottom * yMax - v.k * AreaHeight, yMax)

\* data.values.map((value, i) => `${getX(i)},${getY(clamp(value))}`)
LinePoints(d, yMax) ==
  [i \in 1..Len(d.values) |->
     [x |-> GetX(i - 1, Len(d.values)), y |-> GetY(Clamp(d.values[i], yMax), yMax)]]

\* xLabels: the x of each label the loop pushes, by index.
XLabels(d) == [i \in LabelIndices(Len(d.times)) |-> GetX(i, Len(d.values))]

\* Rectangles that each reach down to the bottom of the plot.
ZoneRectsToBottom(yMax) ==
  << [band |-> "green", y |-> GetY(Q(4), yMax),
      height |-> RatSub(Rat(AreaBottom, 1), GetY(Q(4), yMax))],
     [band |-> "yellow", y |-> GetY(Q(12), yMax),
      height |-> RatSub(Rat(AreaBottom, 1), GetY(Q(12), yMax))],
     [band |-> "orange", y |-> GetY(Q(14), yMax),
      height |-> RatSub(Rat(AreaBottom, 1), GetY(Q(14), yMax))],
     [band |-> "red", y |-> Rat(AreaTop, 1),
      height |-> RatSub(Rat(AreaBottom, 1), Rat(AreaTop, 1))] >>

\* The four zone rectangles: y and height of each, as drawn.
ZoneRects(yMax) ==
  << [band |-> "green", y |-> GetY(Q(4), yMax),
      height |-> RatSub(Rat(AreaBottom, 1), GetY(Q(4), yMax))],
     [band |-> "yellow", y |-> GetY(Q(12), yMax),
      height |-> RatSub(GetY(Q(4), yMax), GetY(Q(12), yMax))],
     [band |-> "orange", y |-> GetY(Q(14), yMax),
      height |-> RatSub(GetY(Q(12), yMax), GetY(Q(14), yMax))],
     [band |-> "red", y |-> Rat(AreaTop, 1),
      height |-> RatSub(GetY(Q(14), yMax), Rat(AreaTop, 1))] >>

maxPoints == 1000

\* A factor rounded down instead of up.
FactorFloor(n) == IF n \div maxPoints > 1 THEN n \div maxPoints ELSE 1

\* Math.max(1, Math.ceil(data.values.length / maxPoints))
Factor(n) ==
  LET ceil == (n + maxPoints - 1) \div maxPoints
  IN IF ceil > 1 THEN ceil ELSE 1

\* seq.filter((_, i) => i % factor === 0), over the entries lo..hi of seq.
RECURSIVE FilterByIndex(_, _, _, _)
FilterByIndex(seq, factor, lo, hi) ==
  IF lo > hi THEN <<>>
  ELSE IF lo = hi THEN (IF (lo - 1) % factor = 0 THEN <<seq[lo]>> ELSE <<>>)
  ELSE LET mid == (lo + hi) \div 2
       IN FilterByIndex(seq, factor, lo, mid) \o FilterByIndex(seq, factor, mid + 1, hi)

\* sampledValues and sampledTimes
Downsample(d) ==
  LET factor == Factor(Len(d.values))
  IN [sampledValues |-> FilterByIndex(d.values, factor, 1, Len(d.values)),
      sampledTimes |-> FilterByIndex(d.times, factor, 1, Len(d.times))]

\* The values a series can hold: numbers below, inside and above the y
\* domain, and the NaN getMVRVHistory leaves for a point without metric.
LayoutValues == {Q(-4), Q(6), Q(17), Q(20), NaN}

\* The series handed to the renderers: times ascending, as getMVRVHistory
\* sorts them, and as many values as times.
LayoutInputs ==
  { d \in UNION { [times : {t}, values : [DOMAIN t -> LayoutValues]] :
                    t \in SeqsUpTo(TimeStrings, MaxPlot) } :
      \A i \in 1..(Len(d.times) - 1) : DateGetTime(d.times[i]) <= DateGetTime(d.times[i + 1]) }

\* A series of n points whose k-th time and value both name the index k - 1.
IndexedSeries(n) == [times |-> [k \in 1..n |-> k - 1], values |-> [k \in 1..n |-> k - 1]]

\* Series lengths around each multiple of maxPoints.
SampleLengths ==
  (0..2) \cup { k * maxPoints + j : k \in 1..MaxFactor, j \in {-1, 0, 1} }

\* Line points and x labels of one call.
ComputePoints ==
  /\ lop = "none"
  /\ \E d \in LayoutInputs, yMax \in PlotYMax :
       /\ lin' = [data |-> d, yMax |-> yMax]
       /\ lout' = [points |-> LinePoints(d, yMax), labels |-> XLabels(d)]
  /\ lop' = "points"
  /\ UNCHANGED <<fetchVars, chainVars, renderVars>>

\* The zone rectangles of one call.
ComputeZones ==
  /\ lop = "none"
  /\ \E yMax \in PlotYMax :
       lin' = [yMax |-> yMax] /\ lout' = [rects |-> ZoneRects(yMax)]
  /\ lop' = "zones"
  /\ UNCHANGED <<fetchVars, chainVars, renderVars>>

\* The down-sampling before the chart-service request.
ComputeSample ==
  /\ lop = "none"
  /\ \E n \in SampleLengths :
       lin' = [data |-> IndexedSeries(n)] /\ lout' = Downsample(IndexedSeries(n))
  /\ lop' = "sample"
  /\ UNCHANGED <<fetchVars, chainVars, renderVars>>

InitLayout == FetchIdle /\ ChainIdle /\ RenderIdle /\ LayoutIdle

NextLayout ==
  \/ ComputePoints
  \/ ComputeZones
  \/ ComputeSample

SpecLayout == InitLayout /\ [][NextLayout]_vars

----------------------------------------------------------------------------
(* Properties of the render chains, checked under SpecChain. *)

\* The documented priority order of each chain.
PriorityOrder(v) ==
  CASE v = "part_003" -> <<"resvg", "screenshot">>
    [] v \in {"part_004", "part_005"} -> <<"quickchart", "resvg", "screenshot">>
    [] OTHER -> <<>>

IsPrefix(s, t) == Len(s) <= Len(t) /\ \A i \in DOMAIN s : s[i] = t[i]

\* C1: once a backend has produced an image the call has returned exactly
\* those bytes and that backend is the last one started; backends are started
\* in priority order; in particular, when the first backend failed and the
\* second succeeded, only those two were started and the second's bytes are
\* the result.
C1_FirstSuccessReturned ==
  /\ IsPrefix(attempts, PriorityOrder(variant))
  /\ produced # <<>> =>
       /\ Len(produced) = 1
       /\ cpc = "returned" /\ active = {}
       /\ cresult = [buffer |-> produced[1].bytes]
       /\ attempts[Len(attempts)] = produced[1].backend
  /\ (/\ Len(failures) = 1 /\ produced # <<>>
      /\ failures[1].backend = PriorityOrder(variant)[1]
      /\ produced[1].backend = PriorityOrder(variant)[2]) =>
       attempts = SubSeq(PriorityOrder(variant), 1, 2)

\* C1 witness: in a three-backend chain the chart service failed, the local
\* rasterizer succeeded and its bytes were returned.
C1_Witness ==
  /\ variant = "part_004" /\ cpc = "returned"
  /\ Len(failures) = 1 /\ failures[1].backend = "quickchart"
  /\ produced = << [backend |-> "resvg", bytes |-> "png-b"] >>
  /\ cresult = [buffer |-> "png-b"]

AllBackendsFailed ==
  /\ variant \in Variants /\ cpc = "thrown"
  /\ Len(failures) = Len(PriorityOrder(variant))

\* C2: when every backend of the chain has failed the call fails with
\* AllBackendsExhaustedError, having started every backend once, in priority
\* order, never two at a time.
C2_AllBackendsExhausted ==
  /\ Cardinality(active) <= 1
  /\ AllBackendsFailed =>
       /\ cerr = "AllBackendsExhaustedError"
       /\ attempts = PriorityOrder(variant)

\* The part of C2 that does not name the error: attempts are made one at a
\* time, in priority order, each after the failure of the one before, and
\* when all have failed each was started exactly once.
ChainAttemptsSequential ==
  /\ Cardinality(active) <= 1
  /\ IsPrefix(attempts, PriorityOrder(variant))
  /\ Len(attempts) <= Len(failures) + 1
  /\ \A i \in DOMAIN failures : failures[i].backend = attempts[i]
  /\ active # {} => active = {attempts[Len(attempts)]} /\ Len(attempts) = Len(failures) + 1
  /\ AllBackendsFailed => attempts = PriorityOrder(variant)

\* C3: the call throws only after every backend of its chain has been tried
\* (no exception escapes while a lower-priority backend is still untried).
C3_NoEscapeBeforeLastBackend ==
  cpc = "thrown" => attempts = PriorityOrder(variant)

----------------------------------------------------------------------------
(* Properties of getMVRVHistory and getBitcoinMVRV, checked under SpecFetch. *)

Occurrences(s, x) == Cardinality({ i \in DOMAIN s : s[i] = x })
SameBag(s, t) ==
  /\ Len(s) = Len(t)
  /\ \A i \in DOMAIN s : Occurrences(s, s[i]) = Occurrences(t, s[i])

\* The point a raw upstream point stands for: its time and its parsed metric.
Parsed(p) == <<p.time, parseFloat(Get(p, "CapMVRVCur"))>>

\* The points of the returned series, as <<time, value>> pairs.
ReturnedPoints == [i \in DOMAIN hresult.times |-> <<hresult.times[i], hresult.values[i]>>]

\* The pages linked from the first URL by the continuation pointers the
\* upstream sent, in chain order, read off the upstream's own responses.
RECURSIVE ChainPoints(_, _)
ChainPoints(u, fuel) ==
  IF fuel = 0 \/ u \notin DOMAIN upstream THEN <<>>
  ELSE LET body == upstream[u]
           pts == [i \in DOMAIN body.data |-> Parsed(body.data[i])]
       IN IF "next_page_url" \in DOMAIN body /\ body.next_page_url # ""
            THEN pts \o ChainPoints(body.next_page_url, fuel - 1)
            ELSE pts

\* Every page a received page points to was itself requested and received.
ChainFollowed ==
  \A u \in DOMAIN upstream :
    ("next_page_url" \in DOMAIN upstream[u] /\ upstream[u].next_page_url # "")
      => upstream[u].next_page_url \in DOMAIN upstream

NoUrlTwice == \A i, j \in DOMAIN requests : requests[i] = requests[j] => i = j

\* C4: in every series getMVRVHistory returns, the instants of adjacent
\* timestamps are non-decreasing.
C4_SortedByTime ==
  hpc = "returned" =>
    \A i \in 1..(Len(hresult.times) - 1) :
      DateGetTime(hresult.times[i]) <= DateGetTime(hresult.times[i + 1])

\* C4 witness: a series was returned whose points arrived over two pages with
\* a later instant before an earlier one.
C4_Witness ==
  /\ hpc = "returned" /\ Len(requests) >= 2 /\ Len(allData) >= 2
  /\ \E i \in 1..(Len(allData) - 1) :
       DateGetTime(allData[i].time) > DateGetTime(allData[i + 1].time)

\* C5: when getMVRVHistory returns, every page of the chain was requested,
\* none twice, and the returned points are exactly the points of the chain's
\* pages (as a multiset).
C5_UnionOfPages ==
  hpc = "returned" =>
    /\ ChainFollowed
    /\ NoUrlTwice
    /\ Len(requests) = Cardinality(DOMAIN upstream)
    /\ SameBag(ReturnedPoints, ChainPoints(FirstUrl, Cardinality(Urls)))

\* C5 witness: three pages were folded into a returned series, arriving out
\* of chronological order.
C5_Witness ==
  /\ hpc = "returned" /\ Len(requests) = 3 /\ Len(hresult.times) = MaxData
  /\ \E i \in 1..(Len(allData) - 1) :
       DateGetTime(allData[i].time) > DateGetTime(allData[i + 1].time)

\* C6: once more pages than the safety cap have been requested, the call has
\* failed with PaginationLoopError.
C6_PaginationCapped ==
  Len(requests) > SafetyCap => (hpc = "failed" /\ herr = "PaginationLoopError")

\* C7: once a page request has returned a non-success status, the call has
\* failed with the upstream error, that request is the last one issued, and
\* no series is returned.
C7_NotOkFails ==
  \A i \in DOMAIN responses :
    responses[i] = "notok" =>
      /\ hpc = "failed" /\ herr = ApiError
      /\ hresult = NoValue
      /\ Len(requests) = i /\ inflight = 0

\* C7 witness: a follow-up page failed after pages with points had been
\* received.
C7_Witness ==
  /\ Len(responses) >= 2 /\ responses[Len(responses)] = "notok"
  /\ Len(allData) > 0 /\ hpc = "failed"

ZeroPointsUpstream ==
  /\ requests # <<>> /\ Len(responses) = Len(requests)
  /\ \A i \in DOMAIN responses : responses[i] = "ok"
  /\ \A u \in DOMAIN upstream : upstream[u].data = <<>>
  /\ url = ""

C9_ValuesAreNumbers ==
  hpc = "returned" => \A i \in DOMAIN hresult.values : hresult.values[i] # NaN

WindowHadZeroPoints ==
  /\ rpc \in {"in_history", "returned", "failed"}
  /\ window # NoValue
  /\ ("data" \notin DOMAIN window \/ window.data = <<>>)

\* C10: after a successful short-window response with zero points,
\* getBitcoinMVRV has invoked getMVRVHistory exactly once; it returns only
\* once that call has returned, and then returns the last value of the series
\* the call yielded; it fails only with that call's error or on an empty series.
C10_FallbackOnceLastValue ==
  WindowHadZeroPoints =>
    /\ histCalls = 1
    /\ rpc = "returned" =>
         /\ hpc = "returned" /\ Len(hresult.values) > 0
         /\ rresult = hresult.values[Len(hresult.values)]
    /\ rpc = "failed" =>
         \/ hpc = "failed" /\ rerr = herr
         \/ hpc = "returned" /\ hresult.values = <<>> /\ rerr = NoMVRVValue

\* C10 witness: the window was empty and the value returned is the last of a
\* history whose first and last values differ.
C10_Witness ==
  /\ WindowHadZeroPoints /\ "data" \in DOMAIN window
  /\ rpc = "returned" /\ Len(hresult.values) >= 2
  /\ hresult.values[1] # hresult.values[Len(hresult.values)]
  /\ rresult = hresult.values[Len(hresult.values)]

----------------------------------------------------------------------------
(* Properties of getBitcoinMVRV, checked under SpecFetch. *)

\* The short-window response carried a last point whose metric parses as a
\* number.
WindowUsable ==
  /\ window # NoValue /\ rpc # "await_window"
  /\ parseFloat(LastPointValue(window)) # NaN

\* The fallback call returned a series holding at least one number.
HistoryUsable ==
  /\ histCalls > 0 /\ hpc = "returned"
  /\ \E i \in DOMAIN hresult.values : hresult.values[i] # NaN

\* C11: getBitcoinMVRV has failed with 'No MVRV value received' only when the
\* window gave no usable last point and the one history call returned without
\* a usable point; when the window gave a usable point the call has returned
\* it without a history call, and when the history gave one the call returns
\* instead of failing.
C11_NoDataOnlyWhenBothEmpty ==
  /\ (rpc = "failed" /\ rerr = NoMVRVValue) =>
        /\ ~WindowUsable
        /\ histCalls = 1 /\ hpc = "returned" /\ ~HistoryUsable
  /\ WindowUsable =>
        /\ rpc = "returned" /\ histCalls = 0
        /\ rresult = parseFloat(LastPointValue(window))
  /\ (HistoryUsable /\ rpc # "in_history") => (rpc = "returned" /\ rerr = NoError)

\* C11 witness: the window was empty, the history returned a series whose only
\* usable point is not its last one, and the call has returned.
C11_Witness ==
  /\ ~WindowUsable /\ HistoryUsable /\ rpc = "returned"
  /\ hresult.values[Len(hresult.values)] = NaN

\* C12: once the window response is in, the call has returned the window's
\* last value without any history call exactly when that value parses as a
\* number; otherwise it has taken the fallback.
C12_WindowValueOrFallback ==
  (window # NoValue /\ rpc # "await_window") =>
    IF WindowUsable
      THEN rpc = "returned" /\ histCalls = 0 /\ requests = <<>>
           /\ rresult = parseFloat(LastPointValue(window))
      ELSE histCalls = 1

\* C13: a value returned on the fallback path is a number, the parsed metric
\* of a point received from upstream, and the last one of the sorted series.
C13_FallbackValueObserved ==
  (rpc = "returned" /\ histCalls > 0) =>
    /\ rresult # NaN
    /\ rresult = hresult.values[Len(hresult.values)]
    /\ \E i \in DOMAIN allData :
         "CapMVRVCur" \in DOMAIN allData[i] /\ parseFloat(allData[i].CapMVRVCur) = rresult

----------------------------------------------------------------------------
(* Properties of the single-backend variants, checked under SpecRender. *)

\* C14: once the headless-browser variant has returned or thrown, no browser
\* process it launched is running, and an error it threw is the first one
\* raised inside the call.
C14_BrowserClosedOriginalError ==
  (renderer = "puppeteer" /\ ppc \in {"returned", "thrown"}) =>
    /\ ~procOpen
    /\ ppc = "thrown" => perr = raised[1]

\* C16: for a series of length 0 no variant evaluates a getX quotient (so none
\* with a zero denominator), nothing is raised before the rasterizer or the
\* browser is reached (the chained variants' preparation included), the only
\* errors are those of the rasterizer, the browser or the module import, and a
\* call that returns has returned an image.
C16_EmptySeriesRenders ==
  (ppc # "idle" /\ Len(rdata.values) = 0 /\ Len(rdata.times) = 0) =>
    /\ ~PrepThrows(rdata) /\ ~LabelsThrow(rdata)
    /\ PrepDivisions(renderer, rdata) = {}
    /\ ppc # "called" => divisions = {}
    /\ \A i \in DOMAIN raised : raised[i] # InvalidTimeValue
    /\ ppc = "returned" => (presult # NoValue /\ presult.buffer \in PngSamples)

\* C16 witness: each variant has returned an image for an empty series; here
\* the canvas variant.
C16_Witness ==
  /\ renderer = "canvas" /\ Len(rdata.values) = 0 /\ ppc = "returned"
  /\ divisions = {} /\ presult.buffer \in PngSamples

\* C19: when DejaVuSans.ttf is absent or unreadable, a call that has chosen
\* its font draws with a family that is registered or with the generic
\* sans-serif.
C19_MissingFontFallsBack ==
  (fonts # NoValue /\ fonts.dejavu # "ok" /\ fontUsed # "none") =>
    fontUsed \in registered \cup {"sans-serif"}

----------------------------------------------------------------------------
(* Properties of the render chains: timeouts and the visual contract. *)

RemoteWaits == {"font_wait", "quickchart_wait", "screenshot_wait"}

\* C15: a call waiting for a remote answer always gets past that wait (a
\* timeout ends it when the service stays silent) and ends up returned or
\* thrown.
C15_RemoteWaitsEnd ==
  /\ \A w \in RemoteWaits : (cpc = w) ~> (cpc # w)
  /\ (cpc = "prep") ~> (cpc \in {"returned", "thrown"})

ZoneThresholds(v, b) ==
  { Zones(v, b)[i].hi : i \in { j \in DOMAIN Zones(v, b) : Zones(v, b)[j].band # "red" } }

\* C17: the backends attempted in one call draw the thresholds 1.0, 3.0, 3.5
\* on the same y domain.
C17_SameAxisEveryBackend ==
  \A i \in DOMAIN attempts, j \in DOMAIN attempts :
    /\ ZoneThresholds(variant, attempts[i]) = {4, 12, 14}
    /\ YMax(variant, attempts[i]) = YMax(variant, attempts[j])

\* C18: an image produced in a call comes from a backend that paints an
\* opaque background other than white.
C18_BackgroundPainted ==
  \A i \in DOMAIN produced :
    Background(variant, produced[i].backend) \notin {"none", "transparent", "#ffffff"}

\* The regions of backend b that hold y under the lower-inclusive,
\* upper-exclusive convention.
BandsOf(v, b, y) ==
  { Zones(v, b)[i].band :
      i \in { j \in DOMAIN Zones(v, b) : Zones(v, b)[j].lo <= y /\ y < Zones(v, b)[j].hi } }

\* C20: in every backend attempted in a call each value of its y domain is
\* held by exactly one region, and two backends of the call put a value of
\* both domains in the same band.
C20_OneBandPerValue ==
  \A i \in DOMAIN attempts, j \in DOMAIN attempts :
    \A y \in 0..(YMax(variant, attempts[i]) - 1) :
      /\ Cardinality(BandsOf(variant, attempts[i], y)) = 1
      /\ y < YMax(variant, attempts[j]) =>
           BandsOf(variant, attempts[i], y) = BandsOf(variant, attempts[j], y)

----------------------------------------------------------------------------
(* Further properties of CoinmetricsService, checked under SpecFetch. *)

\* The next_page_url field of the response the upstream gave for u, as sent.
SentNextPage(u) ==
  IF "next_page_url" \in DOMAIN upstream[u] THEN upstream[u].next_page_url ELSE ""

\* C21: the first request goes to the first page; every later request goes to
\* the next_page_url of the response just before it, which was a success; at
\* most one request is outstanding and a request is issued only when every
\* earlier one was answered; a call that has returned stopped at a response
\* without next_page_url, and no request follows such a response.
C21_PaginationVerbatimSequential ==
  /\ inflight \in {0, 1}
  /\ Len(requests) = Len(responses) + inflight
  /\ requests # <<>> => requests[1] = FirstUrl
  /\ \A k \in DOMAIN responses :
       /\ k < Len(requests) =>
            /\ responses[k] = "ok"
            /\ SentNextPage(requests[k]) # ""
            /\ requests[k + 1] = SentNextPage(requests[k])
       /\ (responses[k] = "ok" /\ SentNextPage(requests[k]) = "") =>
            (k = Len(requests) /\ hpc = "returned")
  /\ hpc = "returned" =>
       /\ Len(responses) = Len(requests)
       /\ SentNextPage(requests[Len(requests)]) = ""

\* C21 witness: three pages were requested one after the other and the call
\* returned at the third, which had no next_page_url.
C21_Witness ==
  /\ hpc = "returned" /\ Len(requests) = 3
  /\ requests[2] # requests[1] /\ requests[3] # requests[2]

\* The values, in order, of the entries of a series or of the raw points that
\* carry the timestamp t.
RECURSIVE ValuesAt(_, _, _)
ValuesAt(times, values, t) ==
  IF times = <<>> THEN <<>>
  ELSE LET rest == ValuesAt(Front(times), Front(values), t)
       IN IF Last(times) = t THEN Append(rest, Last(values)) ELSE rest

\* C22: in a returned series the values that share a timestamp are in the
\* order in which their points arrived.
C22_SortStable ==
  hpc = "returned" =>
    \A t \in TimeStrings :
      ValuesAt(hresult.times, hresult.values, t)
        = ValuesAt([i \in DOMAIN allData |-> allData[i].time],
                   [i \in DOMAIN allData |-> parseFloat(Get(allData[i], "CapMVRVCur"))], t)

\* C22 witness: two points with the same timestamp and different values, on
\* two pages, were returned.
C22_Witness ==
  /\ hpc = "returned" /\ Len(requests) = 2 /\ Len(hresult.times) = 2
  /\ hresult.times[1] = hresult.times[2]
  /\ hresult.values[1] # hresult.values[2]

\* C28: when getBitcoinMVRV has failed without a short-window response, it
\* failed with the error of that request and made no history call or page
\* request; a history call was made only after a response whose last value
\* is missing or empty.
C28_WindowFailureRethrown ==
  /\ (rpc = "failed" /\ window = NoValue) =>
       /\ rerr \in {ApiError, FetchFailed}
       /\ histCalls = 0 /\ requests = <<>> /\ hpc = "idle"
  /\ histCalls > 0 =>
       /\ window # NoValue
       /\ ~Truthy(LastPointValue(window))
       /\ parseFloat(LastPointValue(window)) = NaN

\* C28 witness: the short-window request failed and the call has thrown.
C28_Witness == rpc = "failed" /\ window = NoValue /\ rerr = ApiError

----------------------------------------------------------------------------
(* Properties of the remote-screenshot fallback, checked under SpecChain. *)

ScreenshotEntered == \E i \in DOMAIN attempts : attempts[i] = "screenshot"

NoBaseUrl == ~Truthy(env.PUBLIC_BASE_URL) /\ ~Truthy(env.VERCEL_URL)

\* The error the screenshot block raised before sending anything, if any.
ScreenshotErrors == { failures[i].error : i \in { j \in DOMAIN failures : failures[j].backend = "screenshot" } }

\* C27: once the screenshot fallback is entered, the page to capture is based
\* on PUBLIC_BASE_URL when it is set and on VERCEL_URL otherwise, never on the
\* text of an unset variable, and the missing-configuration error is raised
\* exactly when neither is set.
C27_BaseUrlPrecedence ==
  ScreenshotEntered =>
    /\ (MissingBaseUrl \in ScreenshotErrors) <=> NoBaseUrl
    /\ ~NoBaseUrl =>
         LET base == IF Truthy(env.PUBLIC_BASE_URL) THEN env.PUBLIC_BASE_URL
                     ELSE env.VERCEL_URL
         IN /\ ProjectUrl(env) \in {base, <<"https://">> \o base}
            /\ \A i \in DOMAIN ProjectUrl(env) : ProjectUrl(env)[i] # Undefined[1]

ProviderHosts == {"api.urlbox.io", "api.screenshotone.com"}

\* The requests of the call that went to a screenshot provider.
RECURSIVE ProviderRequests(_)
ProviderRequests(log) ==
  IF log = <<>> THEN <<>>
  ELSE IF Last(log) \in ProviderHosts
    THEN Append(ProviderRequests(Front(log)), Last(log))
    ELSE ProviderRequests(Front(log))

SelectedProvider ==
  IF env.SCREENSHOT_PROVIDER = Undefined THEN <<"urlbox">> ELSE env.SCREENSHOT_PROVIDER

----------------------------------------------------------------------------
(* Properties of the layout arithmetic, checked under SpecLayout. *)

InsidePlotX(x) == RatLe(Rat(AreaLeft, 1), x) /\ RatLe(x, Rat(AreaRight, 1))
InsidePlotY(y) == RatLe(Rat(AreaTop, 1), y) /\ RatLe(y, Rat(AreaBottom, 1))

\* C23: for a series of one point, the x of the point and the x of its label
\* are finite numbers inside the plot rectangle.
C23_SinglePointHasX ==
  (lop = "points" /\ Len(lin.data.values) = 1) =>
    /\ InsidePlotX(lout.points[1].x)
    /\ \A i \in DOMAIN lout.labels : InsidePlotX(lout.labels[i])

\* C24: the y of every line point lies between the top and the bottom of the
\* plot, whatever the value.
C24_VertexInsidePlot ==
  lop = "points" => \A i \in DOMAIN lout.points : InsidePlotY(lout.points[i].y)

\* Every value that is a number is mapped like the nearest bound of the
\* domain, inside the plot.
ClampHoldsForNumbers ==
  lop = "points" =>
    \A i \in DOMAIN lout.points :
      lin.data.values[i] # NaN =>
        LET k == lin.data.values[i].k
            c == IF k < 0 THEN 0 ELSE IF k > lin.yMax THEN lin.yMax ELSE k
        IN /\ InsidePlotY(lout.points[i].y)
           /\ RatEq(lout.points[i].y, Rat(AreaBottom * lin.yMax - c * AreaHeight, lin.yMax))

\* C25: for n >= 2 points, point 0 is at the left edge, point n-1 at the right
\* edge, x grows strictly with the index in equal steps of width / (n - 1),
\* whatever the timestamps are.
C25_XIndexUniform ==
  (lop = "points" /\ Len(lin.data.values) >= 2) =>
    LET n == Len(lin.data.values)
        xs == [i \in 1..n |-> lout.points[i].x]
    IN /\ RatEq(xs[1], Rat(AreaLeft, 1))
       /\ RatEq(xs[n], Rat(AreaRight, 1))
       /\ \A i \in 1..(n - 1) :
            /\ RatLt(xs[i], xs[i + 1])
            /\ RatEq(RatSub(xs[i + 1], xs[i]), Rat(AreaWidth, n - 1))

\* C25 witness: three points whose timestamps are not equally spaced.
C25_Witness ==
  /\ lop = "points" /\ Len(lin.data.values) = 3
  /\ lin.data.times[1] = lin.data.times[2] /\ lin.data.times[2] # lin.data.times[3]
  /\ RatEq(lout.points[2].x, Rat(2 * AreaLeft + AreaWidth, 2))

C30_DownsampleBounded ==
  lop = "sample" =>
    LET n == Len(lin.data.values)
        sv == lout.sampledValues
        st == lout.sampledTimes
    IN /\ Len(sv) <= maxPoints
       /\ Len(st) = Len(sv)
       /\ \A k \in DOMAIN sv : st[k] = sv[k] /\ lin.data.values[sv[k] + 1] = sv[k]
       /\ n > 0 => (sv # <<>> /\ sv[1] = 0)
       /\ \A k \in 1..(Len(sv) - 1) : sv[k] < sv[k + 1]
       /\ n <= maxPoints => (sv = lin.data.values /\ st = lin.data.times)

\* C30 witness: a series one point longer than maxPoints was thinned out.
C30_Witness ==
  /\ lop = "sample" /\ Len(lin.data.values) = maxPoints + 1
  /\ Len(lout.sampledValues) < maxPoints /\ lout.sampledValues[2] = 2

====
